---- MODULE Spec2Model ----
(***************************************************************************)
(* A model of the plush catalog service (app/main.py, app/auth.py,         *)
(* app/models.py, app/database.py): the two tables, the session-per-request*)
(* dependency, the catalog handlers (create, get, list, search, filter)    *)
(* and the register / login flow.                                          *)
(*                                                                         *)
(* Text is a sequence of one-character strings, so that substring, letter  *)
(* case and LIKE wildcards are computed and not assumed.  An optional      *)
(* value is <<>> (None) or <<v>>.                                          *)
(***************************************************************************)
EXTENDS Integers, Sequences, FiniteSets, TLC

VARIABLES
    plushtable,   \* rows of table "plushtable", in insertion order
    plushSeq,     \* next value of the plushtable.id sequence
    users,        \* rows of table "users"
    userSeq,      \* next value of the users.id sequence
    open,         \* sessions created by SessionLocal() and not yet closed
    inflight,     \* per worker: a register request between its lookup and its commit
    resp,         \* the response of the request that completed last
    now,          \* the UTC clock, in minutes
    dialect,      \* the store behind URL_DATABASE, fixed at start-up
    created,      \* history: identity -> the fields submitted by the create request
    firstPw       \* history: username -> the password of its first registration

vars == <<plushtable, plushSeq, users, userSeq, open, inflight, resp, now, dialect,
          created, firstPw>>

(***************************************************************************)
(* Bounds of the model.                                                    *)
(***************************************************************************)
MaxPlushId == 2
MaxUserId == 2
MaxTime == 1
NWorkers == 2

Workers == 1..NWorkers

None == <<>>
Some(v) == <<v>>

(***************************************************************************)
(* Python truthiness, as used by "if q:", "if characters:", "if min_year:" *)
(* and "expires_delta or ...".                                             *)
(***************************************************************************)
TruthyStr(o) == o # None /\ Len(o[1]) > 0
TruthyList(o) == o # None /\ Len(o[1]) > 0
TruthyInt(o) == o # None /\ o[1] # 0

(***************************************************************************)
(* Text: lower-casing and the LIKE pattern match behind Column.ilike.      *)
(***************************************************************************)
LowerChar(c) ==
    CASE c = "A" -> "a"
      [] c = "B" -> "b"
      [] c = "S" -> "s"
      [] OTHER -> c

Lower(s) == [i \in 1..Len(s) |-> LowerChar(s[i])]

RECURSIVE LikeMatch(_, _)
LikeMatch(pat, s) ==
    IF pat = <<>> THEN s = <<>>
    ELSE IF Head(pat) = "%"
         THEN LikeMatch(Tail(pat), s) \/ (s # <<>> /\ LikeMatch(pat, Tail(s)))
         ELSE /\ s # <<>>
              /\ (Head(pat) = "_" \/ Head(pat) = Head(s))
              /\ LikeMatch(Tail(pat), Tail(s))

\* column.ilike(f"%{term}%")
ilike(column, term) == LikeMatch(Lower(<<"%">> \o term \o <<"%">>), Lower(column))

\* membership tested as a substring match
in_contains(column, values) == \E i \in 1..Len(values) : ilike(column, values[i])

\* column.in_(values)
in_(column, values) == \E i \in 1..Len(values) : values[i] = column

(***************************************************************************)
(* Pagination arithmetic: Python's // (floor) and math.ceil(a / b).        *)
(***************************************************************************)
FloorDiv(a, b) == IF b > 0 THEN a \div b ELSE (0 - a) \div (0 - b)

CeilDiv(a, b) == 0 - FloorDiv(0 - a, b)

\* main.py:103 -- math.ceil(total_results / limit) if limit else 1
search_total_pages(total_results, limit) ==
    IF limit # 0 THEN CeilDiv(total_results, limit) ELSE 1

\* main.py:109 -- (skip // limit) + 1 if limit else 1
search_current_page(skip, limit) ==
    IF limit # 0 THEN FloorDiv(skip, limit) + 1 ELSE 1

\* the page count of filter drifts from that of search
filter_total_pages_floor(total_results, limit) ==
    IF limit # 0 THEN FloorDiv(total_results, limit) + 1 ELSE 1

\* main.py:147
filter_total_pages(total_results, limit) ==
    IF limit # 0 THEN CeilDiv(total_results, limit) ELSE 1

\* main.py:159
filter_current_page(skip, limit) ==
    IF limit # 0 THEN FloorDiv(skip, limit) + 1 ELSE 1

(***************************************************************************)
(* The store.  A SELECT without ORDER BY returns its rows in an order the  *)
(* store chooses; OFFSET / LIMIT below zero are rejected by PostgreSQL and *)
(* read as "no offset" / "no limit" by SQLite.                             *)
(***************************************************************************)
Dialects == {"postgresql", "sqlite"}

Rows(table) == {table[i] : i \in 1..Len(table)}

Ids(table) == {table[i].id : i \in 1..Len(table)}

\* every order in which the store may return the rows of S
ScanOrders(S) ==
    {o \in [1..Cardinality(S) -> S] : \A i, j \in 1..Cardinality(S) : o[i] = o[j] => i = j}

\* ORDER BY id ASC
RECURSIVE order_by_id(_)
order_by_id(S) ==
    IF S = {} THEN <<>>
    ELSE LET lo == CHOOSE r \in S : \A t \in S : r.id <= t.id
         IN <<lo>> \o order_by_id(S \ {lo})

OffsetLimitRejected(skip, limit) == dialect = "postgresql" /\ (skip < 0 \/ limit < 0)

\* the limit applied before the offset
OffsetLimit_limit_first(rows, skip, limit) ==
    LET from == IF skip < 0 THEN 1 ELSE skip + 1
        upto == IF limit < 0 \/ limit > Len(rows) THEN Len(rows) ELSE limit
    IN SubSeq(rows, from, upto)

\* rows.offset(skip).limit(limit).all(), where the store accepts it
OffsetLimit(rows, skip, limit) ==
    LET from == IF skip < 0 THEN 1 ELSE skip + 1
        upto == IF limit < 0 THEN Len(rows)
                ELSE IF from + limit - 1 < Len(rows) THEN from + limit - 1 ELSE Len(rows)
    IN SubSeq(rows, from, upto)

(***************************************************************************)
(* Exceptions and the handlers registered for them (main.py:165-188).      *)
(* The handler of an exception is the one registered for the first class   *)
(* of its method resolution order that has a handler.                      *)
(***************************************************************************)
HTTPException(status_code, detail) ==
    [cls |-> "HTTPException", status |-> status_code, detail |-> detail]

IntegrityError == [cls |-> "IntegrityError", status |-> 0, detail |-> "unique violation"]

OperationalError == [cls |-> "OperationalError", status |-> 0, detail |-> "store error"]

DataError == [cls |-> "DataError", status |-> 0, detail |-> "negative OFFSET/LIMIT"]

RequestValidationError ==
    [cls |-> "RequestValidationError", status |-> 0, detail |-> "validation"]

Mro(cls) ==
    CASE cls = "IntegrityError" ->
           <<"IntegrityError", "DBAPIError", "StatementError", "SQLAlchemyError", "Exception">>
      [] cls = "OperationalError" ->
           <<"OperationalError", "DBAPIError", "StatementError", "SQLAlchemyError", "Exception">>
      [] cls = "DataError" ->
           <<"DataError", "DBAPIError", "StatementError", "SQLAlchemyError", "Exception">>
      [] cls = "RequestValidationError" -> <<"RequestValidationError", "ValueError", "Exception">>
      [] OTHER -> <<"HTTPException", "Exception">>

validation_exception_handler(exc) ==
    [status |-> 422, detail |-> "Request validation failed"]

\* no handler of its own: the integrity error answered as any store error
handle_integrity_error_generic(exc) ==
    [status |-> 500, detail |-> "Database error"]

handle_integrity_error(exc) ==
    [status |-> 400, detail |-> "Database integrity error"]

handle_sqlalchemy_error(exc) ==
    [status |-> 500, detail |-> "Database error"]

http_exception_handler(exc) ==
    [status |-> exc.status, detail |-> exc.detail]

Registered == {"RequestValidationError", "IntegrityError", "SQLAlchemyError", "HTTPException"}

exception_handler(exc) ==
    LET mro == Mro(exc.cls)
        hit == CHOOSE i \in 1..Len(mro) :
                   /\ mro[i] \in Registered
                   /\ \A j \in 1..(i - 1) : mro[j] \notin Registered
    IN CASE mro[hit] = "RequestValidationError" -> validation_exception_handler(exc)
         [] mro[hit] = "IntegrityError" -> handle_integrity_error(exc)
         [] mro[hit] = "SQLAlchemyError" -> handle_sqlalchemy_error(exc)
         [] OTHER -> http_exception_handler(exc)

\* what a handler body ends with
Return(value) == [exc |-> None, value |-> value]
Raise(exc) == [exc |-> Some(exc), value |-> None]

(***************************************************************************)
(* get_db (main.py:39-44): one session per request, closed in "finally".   *)
(***************************************************************************)
SessionIds == 1..(NWorkers + 1)

SessionLocal(opn) == CHOOSE s \in SessionIds : s \notin opn /\ \A t \in 1..(s - 1) : t \in opn

\* db = SessionLocal(); yield db
get_db_enter(opn) ==
    LET db == SessionLocal(opn) IN [db |-> db, open |-> opn \cup {db}]

\* the session closed on the normal return only
get_db_exit_no_finally(opn, db, out) == IF out.exc = None THEN opn \ {db} ELSE opn

\* finally: db.close()
get_db_exit(opn, db, out) == opn \ {db}

\* no response is waiting to be sent
NoResponse ==
    [kind |-> "none", req |-> None, status |-> 0, detail |-> "", exc |-> "",
     body |-> None, db |-> 0]

\* the response the client gets, with the session the request used
Reply(kind, req, out, db) ==
    IF out.exc = None
    THEN [kind |-> kind, req |-> req, status |-> 200, detail |-> "", exc |-> "",
          body |-> out.value, db |-> db]
    ELSE LET h == exception_handler(out.exc[1])
         IN [kind |-> kind, req |-> req, status |-> h.status, detail |-> h.detail,
             exc |-> out.exc[1].cls, body |-> None, db |-> db]

\* a completed request hands its response to the server
Respond(r) == resp' = r

\* the server has sent the response
Deliver ==
    /\ resp.kind # "none"
    /\ resp' = NoResponse
    /\ UNCHANGED <<plushtable, plushSeq, users, userSeq, open, inflight, now, dialect,
                   created, firstPw>>

(***************************************************************************)
(* Catalog handlers.  "fault" says where the store fails for reasons of    *)
(* its own (a lost connection): nowhere, or at one of the handler's calls. *)
(***************************************************************************)
authVars == <<users, userSeq, inflight, now, firstPw>>
catalogVars == <<plushtable, plushSeq, created>>

\* variation and set change places
PlushTable_swapped(id, plush) ==
    [id |-> id, character |-> plush.character, variation |-> plush.set,
     set |-> plush.variation, releaseyear |-> plush.releaseyear]

PlushTable(id, plush) ==
    [id |-> id, character |-> plush.character, variation |-> plush.variation,
     set |-> plush.set, releaseyear |-> plush.releaseyear]

\* main.py:49-51
get_all_plushies(fault) ==
    LET s == get_db_enter(open)
        out == IF fault THEN Raise(OperationalError)
               ELSE Return(order_by_id(Rows(plushtable)))
    IN /\ open' = get_db_exit(s.open, s.db, out)
       /\ Respond(Reply("all", None, out, s.db))
       /\ UNCHANGED <<catalogVars, authVars, dialect>>

\* main.py:53-58
get_plush(plush_id, fault) ==
    LET s == get_db_enter(open)
        found == {r \in Rows(plushtable) : r.id = plush_id}
        result == IF found = {} THEN None ELSE Some(CHOOSE r \in found : TRUE)
        out == IF fault THEN Raise(OperationalError)
               ELSE IF result = None THEN Raise(HTTPException(404, "Plush not found!"))
               ELSE Return(result[1])
    IN /\ open' = get_db_exit(s.open, s.db, out)
       /\ Respond(Reply("get", [plush_id |-> plush_id], out, s.db))
       /\ UNCHANGED <<catalogVars, authVars, dialect>>

\* main.py:61-72; fault is "none", "commit" (the INSERT or COMMIT fails) or
\* "refresh" (the row is committed and the SELECT after it fails)
create_plush(plush, fault, burn) ==
    LET s == get_db_enter(open)
        db_plush == PlushTable(plushSeq, plush)
        out == IF fault = "none" THEN Return(db_plush) ELSE Raise(OperationalError)
    IN /\ plushSeq <= MaxPlushId
       /\ burn => (fault = "commit" /\ dialect = "postgresql")
       /\ IF fault = "commit"
          THEN /\ plushSeq' = IF burn THEN plushSeq + 1 ELSE plushSeq
               /\ UNCHANGED <<plushtable, created>>
          ELSE /\ plushtable' = Append(plushtable, db_plush)
               /\ plushSeq' = plushSeq + 1
               /\ created' = [i \in DOMAIN created \cup {db_plush.id} |->
                                 IF i = db_plush.id THEN plush ELSE created[i]]
       /\ open' = get_db_exit(s.open, s.db, out)
       /\ Respond(Reply("create", plush, out, s.db))
       /\ UNCHANGED <<authVars, dialect>>

\* a body that fails PlushBase: the 422 of main.py:165-174
create_plush_invalid ==
    LET s == get_db_enter(open)
        out == Raise(RequestValidationError)
    IN /\ open' = get_db_exit(s.open, s.db, out)
       /\ Respond(Reply("create", None, out, s.db))
       /\ UNCHANGED <<catalogVars, authVars, dialect>>

\* main.py:115-117
get_plushies(skip, limit, fault) ==
    LET s == get_db_enter(open)
        out == IF fault THEN Raise(OperationalError)
               ELSE IF OffsetLimitRejected(skip, limit) THEN Raise(DataError)
               ELSE Return(OffsetLimit(order_by_id(Rows(plushtable)), skip, limit))
    IN /\ open' = get_db_exit(s.open, s.db, out)
       /\ Respond(Reply("page", [skip |-> skip, limit |-> limit], out, s.db))
       /\ UNCHANGED <<catalogVars, authVars, dialect>>

\* main.py:86-99: the rows the built query selects
search_query(q, character, variation, set) ==
    {r \in Rows(plushtable) :
        /\ TruthyStr(q) =>
              \/ ilike(r.character, q[1])
              \/ ilike(r.variation, q[1])
              \/ ilike(r.set, q[1])
        /\ TruthyStr(character) => ilike(r.character, character[1])
        /\ TruthyStr(variation) => ilike(r.variation, variation[1])
        /\ TruthyStr(set) => ilike(r.set, set[1])}

\* main.py:75-112; scan is the order the store returns the selected rows in
search_plushies(p, fault, scan) ==
    LET s == get_db_enter(open)
        query == search_query(p.q, p.character, p.variation, p.set)
        total_results == Cardinality(query)
        out == IF fault THEN Raise(OperationalError)
               ELSE IF OffsetLimitRejected(p.skip, p.limit) THEN Raise(DataError)
               ELSE Return([skip |-> p.skip,
                            total_pages |-> search_total_pages(total_results, p.limit),
                            current_page |-> search_current_page(p.skip, p.limit),
                            limit |-> p.limit,
                            results |-> OffsetLimit(scan, p.skip, p.limit),
                            matched |-> query])
    IN /\ fault \/ scan \in ScanOrders(query)
       /\ open' = get_db_exit(s.open, s.db, out)
       /\ Respond(Reply("search", p, out, s.db))
       /\ UNCHANGED <<catalogVars, authVars, dialect>>

\* main.py:132-143: the rows the built query selects
filter_query(characters, variations, sets, min_year, max_year) ==
    {r \in Rows(plushtable) :
        /\ TruthyList(characters) => in_(r.character, characters[1])
        /\ TruthyList(variations) => in_(r.variation, variations[1])
        /\ TruthyList(sets) => in_(r.set, sets[1])
        /\ TruthyInt(min_year) => r.releaseyear >= min_year[1]
        /\ TruthyInt(max_year) => r.releaseyear <= max_year[1]}

\* main.py:120-162
filter_plushies(p, fault, scan) ==
    LET s == get_db_enter(open)
        query == filter_query(p.characters, p.variations, p.sets, p.min_year, p.max_year)
        total_results == Cardinality(query)
        out == IF fault THEN Raise(OperationalError)
               ELSE IF OffsetLimitRejected(p.skip, p.limit) THEN Raise(DataError)
               ELSE Return([filters |-> [characters |-> p.characters,
                                         variations |-> p.variations,
                                         sets |-> p.sets,
                                         min_year |-> p.min_year,
                                         max_year |-> p.max_year],
                            skip |-> p.skip,
                            total_pages |-> filter_total_pages(total_results, p.limit),
                            current_page |-> filter_current_page(p.skip, p.limit),
                            limit |-> p.limit,
                            results |-> OffsetLimit(scan, p.skip, p.limit),
                            matched |-> query])
    IN /\ fault \/ scan \in ScanOrders(query)
       /\ open' = get_db_exit(s.open, s.db, out)
       /\ Respond(Reply("filter", p, out, s.db))
       /\ UNCHANGED <<catalogVars, authVars, dialect>>

(***************************************************************************)
(* Passwords and tokens (auth.py).  A bcrypt hash carries its salt; a      *)
(* token is the signed claim set.  Time is counted in minutes.             *)
(***************************************************************************)
TokenMinutes == 60
DefaultTokenMinutes == 15

Bcrypt(salt, password) == [salt |-> salt, digest |-> <<salt, password>>]

\* auth.py:18-19
get_password_hash(password, salt) == Bcrypt(salt, password)

\* auth.py:15-16
verify_password(plain_password, hashed_password) ==
    Bcrypt(hashed_password.salt, plain_password) = hashed_password

\* the lifetime asked for is not used
create_access_token_default(data, expires_delta) ==
    [alg |-> "RS256", claims |-> [sub |-> data.sub, exp |-> now + DefaultTokenMinutes]]

\* auth.py:21-26
create_access_token(data, expires_delta) ==
    LET expire == now + (IF TruthyInt(expires_delta) THEN expires_delta[1]
                         ELSE DefaultTokenMinutes)
        to_encode == [sub |-> data.sub, exp |-> expire]
    IN [alg |-> "RS256", claims |-> to_encode]

(***************************************************************************)
(* Register and login.  register runs in a worker thread and is two store  *)
(* round trips: the lookup (main.py:196-198) and the INSERT with its       *)
(* commit (main.py:199-205); other requests run between the two.           *)
(***************************************************************************)
Idle == [pc |-> "idle"]

UserRows(username) == {u \in users : u.username = username}

InFlight == {w \in Workers : inflight[w].pc = "commit"}

\* the duplicate answered as a conflict
UsernameTaken_conflict == HTTPException(409, "Username already registered.")

\* main.py:198
UsernameTaken == HTTPException(400, "Username already registered.")

\* models.py:17 -- username = Column(String, unique=True, ...): the INSERT is refused
UniqueViolation(rows, username) == \E u \in rows : u.username = username

\* main.py:196-198
register_lookup(w, form_data, fault) ==
    LET s == get_db_enter(open)
        existing_user == UserRows(form_data.username)
        out == IF fault THEN Raise(OperationalError)
               ELSE Raise(UsernameTaken)
    IN /\ inflight[w].pc = "idle"
       /\ IF fault \/ existing_user # {}
          THEN /\ open' = get_db_exit(s.open, s.db, out)
               /\ Respond(Reply("register", form_data, out, s.db))
               /\ UNCHANGED inflight
          ELSE /\ userSeq + Cardinality(InFlight) <= MaxUserId
               /\ open' = s.open
               /\ inflight' = [inflight EXCEPT
                                  ![w] = [pc |-> "commit", form |-> form_data, db |-> s.db]]
               /\ UNCHANGED resp
       /\ UNCHANGED <<users, userSeq, now, firstPw, catalogVars, dialect>>

\* main.py:199-205
register_commit(w, salt, fault) ==
    LET form_data == inflight[w].form
        db == inflight[w].db
        hashed_pw == get_password_hash(form_data.password, salt)
        new_user == [id |-> userSeq, username |-> form_data.username,
                     hashed_password |-> hashed_pw]
        unique == ~UniqueViolation(users, form_data.username)
        out == IF fault THEN Raise(OperationalError)
               ELSE IF ~unique THEN Raise(IntegrityError)
               ELSE Return([msg |-> "User registered successfully!"])
    IN /\ inflight[w].pc = "commit"
       /\ IF out.exc = None
          THEN /\ users' = users \cup {new_user}
               /\ userSeq' = userSeq + 1
               /\ firstPw' = IF form_data.username \in DOMAIN firstPw THEN firstPw
                             ELSE [u \in DOMAIN firstPw \cup {form_data.username} |->
                                      IF u = form_data.username THEN form_data.password
                                      ELSE firstPw[u]]
          ELSE /\ userSeq' = IF ~fault /\ dialect = "postgresql" THEN userSeq + 1
                             ELSE userSeq
               /\ UNCHANGED <<users, firstPw>>
       /\ open' = get_db_exit(open, db, out)
       /\ inflight' = [inflight EXCEPT ![w] = Idle]
       /\ Respond(Reply("register", form_data, out, db))
       /\ UNCHANGED <<now, catalogVars, dialect>>

\* main.py:208-217
login(form_data, fault) ==
    LET s == get_db_enter(open)
        found == UserRows(form_data.username)
        user == IF found = {} THEN None ELSE Some(CHOOSE u \in found : TRUE)
        out == IF fault THEN Raise(OperationalError)
               ELSE IF user = None
                       \/ ~verify_password(form_data.password, user[1].hashed_password)
               THEN Raise(HTTPException(401, "Invalid username or password"))
               ELSE Return([access_token |->
                                create_access_token([sub |-> user[1].username],
                                                    Some(TokenMinutes)),
                            token_type |-> "bearer"])
    IN /\ open' = get_db_exit(s.open, s.db, out)
       /\ Respond(Reply("login", form_data, out, s.db))
       /\ UNCHANGED <<users, userSeq, inflight, now, firstPw, catalogVars, dialect>>

\* the clock advances
Tick ==
    /\ now < MaxTime
    /\ now' = now + 1
    /\ UNCHANGED <<users, userSeq, inflight, firstPw, catalogVars, open, resp, dialect>>

(***************************************************************************)
(* Requests.  The catalog and the credentials are separate tables touched  *)
(* by separate handlers, so each is explored with its own inputs           *)
(* (SpecCatalog, SpecAuth); Spec runs every handler of the service.        *)
(***************************************************************************)
DefaultSkip == 0
DefaultLimit == 10

Characters == {<<"A", "b">>, <<"b">>}
Variations == {<<"a">>, <<"B", "a">>}
SetNames == {<<"s">>}
Years == {0 - 1, 1}

PlushInputs ==
    [character : Characters, variation : Variations, set : SetNames, releaseyear : Years]

Skips == {0 - 1, 0, 1, MaxPlushId + 1}
Limits == {0 - 2, 0, 1, 2, DefaultLimit}

QTerms == {None, Some(<<>>), Some(<<"a">>), Some(<<"a", "B">>), Some(<<"S">>),
           Some(<<"_">>), Some(<<"%">>)}
CharacterTerms == {None, Some(<<"a">>), Some(<<"A", "B">>)}
VariationTerms == {None, Some(<<"b">>)}
SetTerms == {None, Some(<<"S">>)}

SearchRequests ==
    [q : QTerms, character : CharacterTerms, variation : VariationTerms, set : SetTerms,
     skip : {DefaultSkip}, limit : {DefaultLimit}]
    \cup [q : {None, Some(<<"a">>)}, character : {None}, variation : {None}, set : {None},
          skip : Skips, limit : Limits]

CharacterLists == {None, Some(<<<<"b">>>>), Some(<<<<"b">>, <<"A", "b">>>>)}
VariationLists == {None, Some(<<<<"a">>>>)}
SetLists == {None, Some(<<<<"s">>>>), Some(<<<<"S">>>>)}
YearBounds == {None, Some(0 - 1), Some(0), Some(1)}

FilterRequests ==
    [characters : CharacterLists, variations : VariationLists, sets : SetLists,
     min_year : {None, Some(1)}, max_year : {None, Some(1)},
     skip : {DefaultSkip}, limit : {DefaultLimit}]
    \cup [characters : {None}, variations : {None}, sets : {None},
          min_year : YearBounds, max_year : YearBounds,
          skip : {DefaultSkip}, limit : {DefaultLimit}]
    \cup [characters : {None}, variations : {None}, sets : {None},
          min_year : {None, Some(1)}, max_year : {None},
          skip : Skips, limit : Limits]

DefaultSearch ==
    [q |-> None, character |-> None, variation |-> None, set |-> None,
     skip |-> DefaultSkip, limit |-> DefaultLimit]

DefaultFilter ==
    [characters |-> None, variations |-> None, sets |-> None, min_year |-> None,
     max_year |-> None, skip |-> DefaultSkip, limit |-> DefaultLimit]

PlushIds == 0..(MaxPlushId + 1)

Usernames == {"alice", "bob"}
Passwords == {"pw1", "pw2"}
Salts == {"salt1", "salt2"}
Forms == [username : Usernames, password : Passwords]

Init ==
    /\ plushtable = <<>>
    /\ plushSeq = 1
    /\ users = {}
    /\ userSeq = 1
    /\ open = {}
    /\ inflight = [w \in Workers |-> Idle]
    /\ resp = NoResponse
    /\ now = 0
    /\ dialect \in Dialects
    /\ created = <<>>
    /\ firstPw = <<>>

Faults == BOOLEAN

\* the server takes the next request once the last response is sent; a register
\* request that has done its lookup goes on to its commit whenever its thread runs
Ready == resp.kind = "none"

NextCatalog ==
    \/ Deliver
    \/ Ready /\ \E fault \in Faults : get_all_plushies(fault)
    \/ Ready /\ \E plush_id \in PlushIds, fault \in Faults : get_plush(plush_id, fault)
    \/ Ready /\ \E plush \in PlushInputs, fault \in {"none", "commit", "refresh"},
                   burn \in BOOLEAN :
                    create_plush(plush, fault, burn)
    \/ Ready /\ create_plush_invalid
    \/ Ready /\ \E skip \in Skips, limit \in Limits, fault \in Faults :
                    get_plushies(skip, limit, fault)
    \/ Ready /\ \E p \in SearchRequests :
                    \E scan \in ScanOrders(search_query(p.q, p.character, p.variation, p.set)) :
                        search_plushies(p, FALSE, scan)
    \/ Ready /\ search_plushies(DefaultSearch, TRUE, <<>>)
    \/ Ready /\ \E p \in FilterRequests :
                    \E scan \in ScanOrders(filter_query(p.characters, p.variations, p.sets,
                                                        p.min_year, p.max_year)) :
                        filter_plushies(p, FALSE, scan)
    \/ Ready /\ filter_plushies(DefaultFilter, TRUE, <<>>)

NextAuth ==
    \/ Deliver
    \/ Ready /\ \E w \in Workers, form_data \in Forms, fault \in Faults :
                    register_lookup(w, form_data, fault)
    \/ \E w \in Workers, salt \in Salts, fault \in Faults : register_commit(w, salt, fault)
    \/ Ready /\ \E form_data \in Forms, fault \in Faults : login(form_data, fault)
    \/ Tick

\* the whole service, on a few inputs per handler and with the clock at rest
OnePlush ==
    [character |-> <<"A", "b">>, variation |-> <<"a">>, set |-> <<"s">>, releaseyear |-> 1]

OneForm == [username |-> "alice", password |-> "pw1"]

FewForms == [username : {"alice"}, password : Passwords]

Next ==
    \/ Deliver
    \/ Ready /\ \E w \in Workers, fault \in Faults : register_lookup(w, OneForm, fault)
    \/ \E w \in Workers, fault \in Faults : register_commit(w, "salt1", fault)
    \/ Ready /\ \E form_data \in FewForms, fault \in Faults : login(form_data, fault)
    \/ Ready /\ \E fault \in Faults : get_all_plushies(fault)
    \/ Ready /\ \E plush_id \in {1, MaxPlushId + 1}, fault \in Faults :
                    get_plush(plush_id, fault)
    \/ Ready /\ \E fault \in {"none", "commit", "refresh"} : create_plush(OnePlush, fault, FALSE)
    \/ Ready /\ create_plush_invalid
    \/ Ready /\ \E limit \in {0 - 2, DefaultLimit}, fault \in Faults :
                    get_plushies(DefaultSkip, limit, fault)
    \/ Ready /\ \E fault \in Faults :
                    search_plushies(DefaultSearch, fault, order_by_id(Rows(plushtable)))
    \/ Ready /\ \E fault \in Faults :
                    filter_plushies(DefaultFilter, fault, order_by_id(Rows(plushtable)))

Spec == Init /\ [][Next]_vars

\* a worker thread that has a commit to do gets to run
FairSpec ==
    Spec /\ \A w \in Workers : WF_vars(\E fault \in Faults : register_commit(w, "salt1", fault))

SpecCatalog == Init /\ [][NextCatalog]_vars

SpecAuth == Init /\ [][NextAuth]_vars

(***************************************************************************)
(* Properties.                                                             *)
(***************************************************************************)
\* a request completes in this step: a handler that runs in one step answers, or a
\* register request does its commit
Completes ==
    \/ resp.kind = "none" /\ resp'.kind # "none"
    \/ \E w \in Workers : inflight[w].pc = "commit" /\ inflight'[w].pc = "idle"

StoreFailed(r) == r.exc = "OperationalError"

C1_Step ==
    /\ \A u \in users : u \in users'
    /\ (/\ Completes
        /\ resp'.kind = "register"
        /\ ~StoreFailed(resp')
        /\ \E u \in users : u.username = resp'.req.username)
       => (resp'.status = 400 /\ users' = users)
    /\ (/\ Completes
        /\ resp'.kind = "login"
        /\ ~StoreFailed(resp')
        /\ resp'.req.username \in DOMAIN firstPw
        /\ resp'.req.password = firstPw[resp'.req.username])
       => (resp'.status = 200 /\ resp'.body # None)

\* C1: a register request for a username that already has a credential is answered 400
\* and stores nothing; no stored credential ever changes or disappears; a login with
\* the password of the first registration of a username succeeds.
C1_DuplicateRegistrationRejected == [][C1_Step]_vars

\* a second registration of a registered username was just refused by the lookup
C1_Witness ==
    /\ resp.kind = "register"
    /\ resp.status = 400
    /\ resp.exc = "HTTPException"
    /\ resp.req.username \in DOMAIN firstPw
    /\ resp.req.password # firstPw[resp.req.username]

C2_Step ==
    /\ \A u1, u2 \in users' : u1.username = u2.username => u1 = u2
    /\ \A w \in Workers :
         (inflight[w].pc = "commit" /\ inflight'[w].pc = "idle" /\ ~StoreFailed(resp'))
         => IF \E u \in users : u.username = inflight[w].form.username
            THEN /\ resp'.status \in 400..499
                 /\ users' = users
            ELSE /\ resp'.status = 200
                 /\ Cardinality(users') = Cardinality(users) + 1
                 /\ \E u \in users' \ users : u.username = inflight[w].form.username

\* C2: of two register requests for one username that both passed the lookup, the one
\* that commits second is answered with a 4xx status and stores nothing, the one that
\* commits first stores exactly one credential, and the users table never holds two
\* credentials for one username.
C2_RegistrationRace == [][C2_Step]_vars

\* the loser of a registration race was just answered
C2_Witness ==
    /\ resp.kind = "register"
    /\ resp.exc = "IntegrityError"
    /\ resp.status = 400
    /\ \E u \in users : u.username = resp.req.username

C3_Step ==
    (Completes /\ resp'.kind = "login" /\ ~StoreFailed(resp'))
    => IF /\ resp'.req.username \in DOMAIN firstPw
          /\ resp'.req.password = firstPw[resp'.req.username]
       THEN /\ resp'.status = 200
            /\ resp'.body.token_type = "bearer"
            /\ resp'.body.access_token.claims.sub = resp'.req.username
            /\ resp'.body.access_token.claims.exp = now + 60
            /\ \E u \in users : u.username = resp'.body.access_token.claims.sub
       ELSE /\ resp'.status = 401
            /\ resp'.detail = "Invalid username or password"
            /\ resp'.body = None

\* C3: a login is answered 401 "Invalid username or password" with no token when the
\* username is not registered or the password is not the registered one; otherwise it
\* is answered with one bearer token whose subject is the stored username and whose
\* expiration is the time of issue plus 60 minutes.
C3_LoginOutcome == [][C3_Step]_vars

\* a token was issued after the clock had advanced
C3_Witness ==
    /\ resp.kind = "login"
    /\ resp.status = 200
    /\ now > 0
    /\ resp.body.access_token.claims.exp = now + 60

C4_Step ==
    /\ (Completes /\ resp'.kind = "create" /\ resp'.status = 200)
       => /\ resp'.body.id \notin DOMAIN created
          /\ resp'.body.id \notin Ids(plushtable)
          /\ \A i \in DOMAIN created : i \in DOMAIN created' /\ created'[i] = created[i]
    /\ (Completes /\ resp'.kind = "get" /\ ~StoreFailed(resp'))
       => IF resp'.req.plush_id \in DOMAIN created
          THEN /\ resp'.status = 200
               /\ resp'.body.id = resp'.req.plush_id
               /\ resp'.body.character = created[resp'.req.plush_id].character
               /\ resp'.body.variation = created[resp'.req.plush_id].variation
               /\ resp'.body.set = created[resp'.req.plush_id].set
               /\ resp'.body.releaseyear = created[resp'.req.plush_id].releaseyear
          ELSE /\ resp'.status = 404
               /\ resp'.detail = "Plush not found!"

\* C4: the record a create request returns has an identity no earlier record has; a
\* get-by-id of an assigned identity returns the character, variation, set and
\* releaseyear submitted for it; a get-by-id of an identity never assigned is answered
\* 404 "Plush not found!".
C4_IdentityAndReadBack == [][C4_Step]_vars

\* the first of two records was read back after the second was created
C4_Witness ==
    /\ resp.kind = "get"
    /\ resp.status = 200
    /\ Len(plushtable) >= 2
    /\ resp.body.id = plushtable[1].id
    /\ created[plushtable[1].id] # created[plushtable[2].id]

\* C5: a filter with min_year=0 returns and counts no record with a negative
\* releaseyear, and one with max_year=0 no record with a positive releaseyear.
C5_ZeroBoundApplied ==
    (resp.kind = "filter" /\ resp.status = 200)
    => /\ resp.req.min_year = Some(0)
          => /\ \A r \in resp.body.matched : r.releaseyear >= 0
             /\ \A i \in 1..Len(resp.body.results) : resp.body.results[i].releaseyear >= 0
       /\ resp.req.max_year = Some(0)
          => /\ \A r \in resp.body.matched : r.releaseyear <= 0
             /\ \A i \in 1..Len(resp.body.results) : resp.body.results[i].releaseyear <= 0

Members(list) == {list[i] : i \in 1..Len(list)}

\* C6: with min_year and max_year absent or non-zero, filter matches exactly the
\* records whose character, variation and set are each equal to a member of the
\* list supplied for it and whose releaseyear lies within the supplied inclusive
\* bounds, a condition applying only when its parameter is supplied.
C6_FilterMatches ==
    (/\ resp.kind = "filter"
     /\ resp.status = 200
     /\ resp.req.min_year # Some(0)
     /\ resp.req.max_year # Some(0))
    => /\ \A r \in Rows(plushtable) :
            r \in resp.body.matched <=>
               /\ resp.req.characters = None \/ r.character \in Members(resp.req.characters[1])
               /\ resp.req.variations = None \/ r.variation \in Members(resp.req.variations[1])
               /\ resp.req.sets = None \/ r.set \in Members(resp.req.sets[1])
               /\ resp.req.min_year = None \/ resp.req.min_year[1] <= r.releaseyear
               /\ resp.req.max_year = None \/ r.releaseyear <= resp.req.max_year[1]
       /\ resp.body.matched \subseteq Rows(plushtable)

\* a filter on characters and on both years kept one record and dropped another whose
\* character contains the one asked for
C6_Witness ==
    /\ resp.kind = "filter"
    /\ resp.status = 200
    /\ resp.req.characters = Some(<<<<"b">>>>)
    /\ resp.req.min_year = Some(1)
    /\ resp.req.max_year = Some(1)
    /\ resp.body.matched # {}
    /\ \E r \in Rows(plushtable) \ resp.body.matched :
          r.character = <<"A", "b">> /\ r.releaseyear = 1

\* text t occurs in text s, letter case ignored
ContainsIgnoreCase(s, t) ==
    \E i \in 0..(Len(s) - Len(t)) :
        \A j \in 1..Len(t) : LowerChar(s[i + j]) = LowerChar(t[j])

NonNegativeWindow(r) == r.req.skip >= 0 /\ r.req.limit >= 0

\* C7: search matches exactly the records for which q, when given, occurs (letter
\* case ignored) in character, variation or set, and each of character, variation and
\* set, when given, occurs in the record's field of that name; the results are
\* matching records, offset by skip and capped at limit.
C7_SearchMatches ==
    (resp.kind = "search" /\ resp.status = 200)
    => /\ \A r \in Rows(plushtable) :
            r \in resp.body.matched <=>
               /\ \/ resp.req.q = None
                  \/ ContainsIgnoreCase(r.character, resp.req.q[1])
                  \/ ContainsIgnoreCase(r.variation, resp.req.q[1])
                  \/ ContainsIgnoreCase(r.set, resp.req.q[1])
               /\ resp.req.character = None
                     \/ ContainsIgnoreCase(r.character, resp.req.character[1])
               /\ resp.req.variation = None
                     \/ ContainsIgnoreCase(r.variation, resp.req.variation[1])
               /\ resp.req.set = None \/ ContainsIgnoreCase(r.set, resp.req.set[1])
       /\ \A i \in 1..Len(resp.body.results) : resp.body.results[i] \in resp.body.matched
       /\ NonNegativeWindow(resp)
          => Len(resp.body.results) =
                IF Cardinality(resp.body.matched) - resp.req.skip < 0 THEN 0
                ELSE IF Cardinality(resp.body.matched) - resp.req.skip < resp.req.limit
                     THEN Cardinality(resp.body.matched) - resp.req.skip
                     ELSE resp.req.limit

\* n = ceil(a / b), b # 0
IsCeil(n, a, b) ==
    IF b > 0 THEN (n - 1) * b < a /\ a <= n * b
    ELSE (n - 1) * b > a /\ a >= n * b

\* n = floor(a / b), b # 0
IsFloor(n, a, b) ==
    IF b > 0 THEN n * b <= a /\ a < (n + 1) * b
    ELSE n * b >= a /\ a > (n + 1) * b

\* C8: in the envelope of search and of filter, total_pages is ceil(total_matching /
\* limit) and current_page is floor(skip / limit) + 1 when limit is not 0, and both
\* are 1 when limit is 0; 25 matches at limit 10 make 3 pages in both.
C8_PaginationArithmetic ==
    /\ (resp.kind \in {"search", "filter"} /\ resp.status = 200)
       => IF resp.req.limit = 0
          THEN resp.body.total_pages = 1 /\ resp.body.current_page = 1
          ELSE /\ IsCeil(resp.body.total_pages, Cardinality(resp.body.matched),
                         resp.req.limit)
               /\ IsFloor(resp.body.current_page - 1, resp.req.skip, resp.req.limit)
    /\ search_total_pages(25, 10) = 3
    /\ filter_total_pages(25, 10) = 3
    /\ search_total_pages(25, 0) = 1
    /\ filter_total_pages(25, 0) = 1

\* a filter envelope of two pages, read from its second page
C8_Witness ==
    /\ resp.kind = "filter"
    /\ resp.status = 200
    /\ resp.req.limit = 1
    /\ resp.req.skip = 1
    /\ Cardinality(resp.body.matched) = 2
    /\ resp.body.total_pages = 2
    /\ resp.body.current_page = 2

\* C9: the paginated listing with skip >= 0 and limit >= 0 returns min(limit,
\* max(0, total - skip)) records, in ascending identity order, the first of them
\* being the record with exactly skip records of lower identity.
C9_PaginatedListing ==
    (/\ resp.kind = "page"
     /\ resp.status = 200
     /\ resp.req.skip >= 0
     /\ resp.req.limit >= 0)
    => LET total == Len(plushtable)
           rest == IF total - resp.req.skip < 0 THEN 0 ELSE total - resp.req.skip
           res == resp.body
       IN /\ Len(res) = IF resp.req.limit < rest THEN resp.req.limit ELSE rest
          /\ \A i \in 1..Len(res) :
                /\ res[i] \in Rows(plushtable)
                /\ Cardinality({r \in Rows(plushtable) : r.id < res[i].id})
                      = resp.req.skip + i - 1
          /\ resp.req.skip >= total => res = <<>>

\* the second page of one record out of two
C9_Witness ==
    /\ resp.kind = "page"
    /\ resp.status = 200
    /\ resp.req.skip = 1
    /\ resp.req.limit = 1
    /\ Len(plushtable) = 2
    /\ resp.body = <<plushtable[2]>>

Sessions ==
    /\ open = {inflight[w].db : w \in InFlight}
    /\ \A w1, w2 \in InFlight : inflight[w1].db = inflight[w2].db => w1 = w2
    /\ resp.kind # "none" => resp.db \notin open

SessionStep ==
    /\ \A w \in Workers :
          /\ (inflight[w].pc = "idle" /\ inflight'[w].pc = "commit")
             => inflight'[w].db \notin open /\ open' = open \cup {inflight'[w].db}
          /\ (inflight[w].pc = "commit" /\ inflight'[w].pc = "idle")
             => open' = open \ {inflight[w].db} /\ resp'.db = inflight[w].db
    /\ (\A w \in Workers : inflight'[w].pc = inflight[w].pc) => open' = open

\* C10: each request has one session of its own, open from its first store call to
\* its completion; a session is closed by the step that completes its request,
\* whether the handler returns, raises an HTTP error or a store call fails; every
\* open session is eventually closed.
C10_SessionPerRequest ==
    /\ []Sessions
    /\ [][SessionStep]_vars
    /\ \A s \in SessionIds : (s \in open) ~> (s \notin open)

\* a register request lost its commit to a store failure while another one is still
\* between lookup and commit
C10_Witness ==
    /\ resp.kind = "register"
    /\ resp.status = 500
    /\ resp.db \notin open
    /\ InFlight # {}

====
